---- MODULE Spec2Model ----
(***************************************************************************)
(* Model of the arena tree (idtree.rs) and of the kinematic tree / chain   *)
(* built on it (idtree_links.rs).                                          *)
(*                                                                         *)
(* Option<T> is a sequence of length at most one: None is <<>> and Some(x) *)
(* is <<x>>.  NodeId(k) is the natural k, the node it names is nodes[k+1]. *)
(* An Isometry3 is a word over opaque generators: the product is           *)
(* concatenation and the identity is the empty word, so that products are  *)
(* associative, not commutative, and never equal by accident.              *)
(***************************************************************************)
EXTENDS Integers, Sequences, FiniteSets, TLC

VARIABLES
    nodes,    \* IdTree::nodes, the arena
    links,    \* the set_parent_child calls made so far, <<parent, child>>, in order
    created,  \* the link names given to create_node so far, in order
    anc,      \* an Ancestor iterator: its id field and the items it has yielded
    wrapped,  \* the tree has been handed to IdLinkTree::new
    chain,    \* the IdKinematicChain alive over the tree, if any
    last,     \* the last call made, its argument and what it returned
    ik        \* the solve call in progress or just returned

vars == <<nodes, links, created, anc, wrapped, chain, last, ik>>

(* ---- bounds of the model ---- *)
MaxNodes == 3
MaxAngle == 1
MaxPose == 1
MaxTry == 2
MaxTarget == 2
PosTol == 1
RotTol == 1

Names == {"a", "b"}
LookupNames == Names \cup {"zz"}
Angles == 0 .. MaxAngle
Poses == 0 .. MaxPose

None == <<>>
Some(x) == <<x>>
IsSome(o) == Len(o) = 1
IsNone(o) == Len(o) = 0
Unwrap(o) == o[1]

(* ---- the Link payload (links.rs / joints.rs, callers in idtree_links.rs) ---- *)
Range(lo, hi) == [min |-> lo, max |-> hi]

NewLink(name, jtype, limits) ==
    [name |-> name,
     joint |-> [name |-> <<"joint", name>>, joint_type |-> jtype,
                angle |-> 0, limits |-> limits],
     transform |-> 0,
     world_transform_cache |-> None]

LinkInputs ==
    {NewLink("a", "Fixed", None),
     NewLink("a", "Rotational", None),
     NewLink("b", "Rotational", None),
     NewLink("b", "Rotational", Some(Range(0, MaxAngle - 1)))}

has_joint_angle(link) == link.joint.joint_type # "Fixed"

get_joint_angle(link) ==
    IF link.joint.joint_type = "Fixed" THEN None ELSE Some(link.joint.angle)

(* Link::set_joint_angle: a Fixed joint and a value outside the configured *)
(* limits are rejected; a successful write drops the link's own cache.     *)
set_joint_angle(link, angle) ==
    IF link.joint.joint_type = "Fixed"
    THEN [err |-> "OutOfLimit", link |-> link]
    ELSE IF IsSome(link.joint.limits)
            /\ (angle < Unwrap(link.joint.limits).min
                \/ angle > Unwrap(link.joint.limits).max)
    THEN [err |-> "OutOfLimit", link |-> link]
    ELSE [err |-> "Ok",
          link |-> [link EXCEPT !.joint.angle = angle,
                                !.world_transform_cache = None]]

Identity == <<>>
Mul(a, b) == a \o b

(* Link::calc_transform: the link offset composed with the joint motion. *)
calc_transform(link) ==
    << <<link.transform,
         IF link.joint.joint_type = "Fixed" THEN None ELSE Some(link.joint.angle)>> >>

(* ---- IdTree ---- *)
IdNode_new(data, id) ==
    [parent |-> None, children |-> <<>>, little_sister |-> None,
     id |-> id, data |-> data]

Get(ns, id) == ns[id + 1]

Ids(ns) == 0 .. (Len(ns) - 1)

iter(ns) == ns

(* Faulty variants of the operations are kept next to them: each property     *)
(* below is also run against one of them and must then fail.                  *)
create_node_front(ns, data) ==
    [nodes |-> <<IdNode_new(data, Len(ns))>> \o ns, id |-> Len(ns)]

create_node(ns, data) ==
    LET id == Len(ns)
    IN  [nodes |-> Append(ns, IdNode_new(data, id)), id |-> id]

set_parent_child_front(ns, parent_id, child_id) ==
    LET pc == Get(ns, parent_id).children
        ns1 == IF pc # <<>>
               THEN [ns EXCEPT ![pc[Len(pc)] + 1].little_sister = Some(child_id)]
               ELSE ns
        ns2 == [ns1 EXCEPT ![parent_id + 1].children = <<child_id>> \o pc]
    IN  [ns2 EXCEPT ![child_id + 1].parent = Some(parent_id)]

set_parent_child_big_sister(ns, parent_id, child_id) ==
    LET pc == Get(ns, parent_id).children
        ns1 == IF pc # <<>>
               THEN [ns EXCEPT ![child_id + 1].little_sister = Some(pc[Len(pc)])]
               ELSE ns
        ns2 == [ns1 EXCEPT ![parent_id + 1].children = Append(pc, child_id)]
    IN  [ns2 EXCEPT ![child_id + 1].parent = Some(parent_id)]

set_parent_child(ns, parent_id, child_id) ==
    LET pc == Get(ns, parent_id).children
        ns1 == IF pc # <<>>
               THEN [ns EXCEPT ![pc[Len(pc)] + 1].little_sister = Some(child_id)]
               ELSE ns
        ns2 == [ns1 EXCEPT ![parent_id + 1].children = Append(pc, child_id)]
    IN  [ns2 EXCEPT ![child_id + 1].parent = Some(parent_id)]

Ancestor_next_stops_early(ns, id) ==
    IF IsSome(id) /\ IsSome(Get(ns, Unwrap(id)).parent)
    THEN [item |-> Some(Unwrap(id)), id |-> Get(ns, Unwrap(id)).parent]
    ELSE [item |-> None, id |-> None]

(* Ancestor::next on the iterator state `id`: the item yielded and the new state. *)
Ancestor_next(ns, id) ==
    IF IsSome(id)
    THEN [item |-> Some(Unwrap(id)), id |-> Get(ns, Unwrap(id)).parent]
    ELSE [item |-> None, id |-> None]

iter_ancestors(id) == Some(id)

(* ---- what the caller of set_parent_child must ensure ---- *)
RECURSIVE ReachesUp(_, _, _, _)
ReachesUp(ns, from, target, fuel) ==
    IF from = target THEN TRUE
    ELSE IF fuel = 0 \/ IsNone(Get(ns, from).parent) THEN FALSE
    ELSE ReachesUp(ns, Unwrap(Get(ns, from).parent), target, fuel - 1)

MayAttach(ns, p, c) ==
    /\ p \in Ids(ns) /\ c \in Ids(ns)
    /\ IsNone(Get(ns, c).parent)
    /\ ~ReachesUp(ns, p, c, Len(ns))

(* ---- state ---- *)
AncIdle == [st |-> "idle", start |-> None, id |-> None, out |-> <<>>]
NoOp == [op |-> "none"]
IkIdle == [st |-> "idle"]

Init ==
    /\ nodes = <<>>
    /\ links = <<>>
    /\ created = <<>>
    /\ anc = AncIdle
    /\ wrapped = FALSE
    /\ chain = None
    /\ last = NoOp
    /\ ik = IkIdle

(* The client builds the tree, may walk it, then hands it to IdLinkTree::new  *)
(* and uses the kinematic tree; a chain borrows the tree mutably while alive. *)
Building == ~wrapped /\ anc.st # "iter"
Robot == wrapped /\ IsNone(chain)

CreateNode(data) ==
    /\ Building
    /\ Len(nodes) < MaxNodes
    /\ LET r == create_node(nodes, data)
       IN  /\ nodes' = r.nodes
           /\ last' = [op |-> "create_node", res |-> r.id]
    /\ created' = Append(created, data.name)
    /\ anc' = AncIdle
    /\ UNCHANGED <<ik, links, wrapped, chain>>

SetParentChild(p, c) ==
    /\ Building
    /\ MayAttach(nodes, p, c)
    /\ nodes' = set_parent_child(nodes, p, c)
    /\ links' = Append(links, <<p, c>>)
    /\ last' = [op |-> "set_parent_child", res |-> <<p, c>>]
    /\ anc' = AncIdle
    /\ UNCHANGED <<ik, created, wrapped, chain>>

AncestorStart(id) ==
    /\ Building
    /\ id \in Ids(nodes)
    /\ anc' = [st |-> "iter", start |-> Some(id), id |-> iter_ancestors(id), out |-> <<>>]
    /\ last' = [op |-> "iter_ancestors", res |-> id]
    /\ UNCHANGED <<ik, nodes, links, created, wrapped, chain>>

AncestorNext ==
    /\ anc.st = "iter"
    /\ LET r == Ancestor_next(nodes, anc.id)
       IN  anc' = [anc EXCEPT !.id = r.id,
                              !.out = anc.out \o r.item,
                              !.st = IF IsNone(r.item) THEN "done" ELSE "iter"]
    /\ UNCHANGED <<ik, nodes, links, created, wrapped, chain, last>>

(* ---- IdTree::iter_descendants: depth first from `id`, inclusive, with an   *)
(* explicit stack; a node is produced before any of its descendants and the   *)
(* children of a node in insertion order. ---- *)
Reverse(s) == [i \in 1 .. Len(s) |-> s[Len(s) + 1 - i]]

RECURSIVE Descendants_run(_, _, _)
Descendants_run(ns, stack, out) ==
    IF stack = <<>> THEN out
    ELSE LET id == stack[Len(stack)]
             rest == SubSeq(stack, 1, Len(stack) - 1)
         IN  Descendants_run(ns, rest \o Reverse(Get(ns, id).children), Append(out, id))

iter_descendants(ns, id) == Descendants_run(ns, <<id>>, <<>>)

(* ---- IdLinkTree ---- *)
(* The scan of get_root_node_id from position i of iter(); None stands for   *)
(* the failed assertion "could not found root", after which nothing returns.  *)
RECURSIVE root_scan(_, _)
root_scan(ns, i) ==
    IF i > Len(iter(ns)) THEN None
    ELSE IF IsNone(iter(ns)[i].parent) THEN Some(iter(ns)[i].id)
    ELSE root_scan(ns, i + 1)

get_root_node_id_falls_through(ns) ==
    IF IsNone(root_scan(ns, 1)) THEN Some(0) ELSE root_scan(ns, 1)

get_root_node_id(ns) == root_scan(ns, 1)

set_root_transform(ns, transform) ==
    [ns EXCEPT ![0 + 1].data.transform = transform]

SeqOfIds(ns) == [i \in 1 .. Len(ns) |-> i - 1]

iter_joints(ns) == SelectSeq(SeqOfIds(ns), LAMBDA id : has_joint_angle(Get(ns, id).data))

dof(ns) == Len(iter_joints(ns))

(* The loop of set_joint_angles: the i-th listed link takes angles[i]; the   *)
(* first failing assignment ends the loop with its error.                    *)
RECURSIVE assign_angles_skips_failed(_, _, _, _, _)
assign_angles_skips_failed(ns, ids, angles, i, res) ==
    IF i > Len(ids) THEN [nodes |-> ns, res |-> res]
    ELSE LET r == set_joint_angle(Get(ns, ids[i]).data, angles[i])
         IN  IF r.err # "Ok"
             THEN assign_angles_skips_failed(ns, ids, angles, i + 1, r.err)
             ELSE assign_angles_skips_failed(
                      [ns EXCEPT ![ids[i] + 1].data = r.link], ids, angles, i + 1, res)

assign_angles_continues(ns, ids, angles, i) ==
    assign_angles_skips_failed(ns, ids, angles, i, "Ok")

RECURSIVE assign_angles(_, _, _, _)
assign_angles(ns, ids, angles, i) ==
    IF i > Len(ids) THEN [nodes |-> ns, res |-> "Ok"]
    ELSE LET r == set_joint_angle(Get(ns, ids[i]).data, angles[i])
         IN  IF r.err # "Ok" THEN [nodes |-> ns, res |-> r.err]
             ELSE assign_angles([ns EXCEPT ![ids[i] + 1].data = r.link], ids, angles, i + 1)

tree_set_joint_angles_truncates(ns, angles_vec) ==
    IF Len(angles_vec) < dof(ns) THEN [nodes |-> ns, res |-> "SizeMisMatch"]
    ELSE assign_angles(ns, iter_joints(ns), angles_vec, 1)

tree_set_joint_angles(ns, angles_vec) ==
    IF Len(angles_vec) # dof(ns) THEN [nodes |-> ns, res |-> "SizeMisMatch"]
    ELSE assign_angles(ns, iter_joints(ns), angles_vec, 1)

FilterMap(s) ==
    LET some == SelectSeq(s, IsSome)
    IN  [i \in 1 .. Len(some) |-> Unwrap(some[i])]

tree_get_joint_angles(ns) ==
    FilterMap([i \in 1 .. Len(ns) |-> get_joint_angle(ns[i].data)])

tree_get_joint_limits(ns) ==
    LET js == iter_joints(ns)
    IN  [i \in 1 .. Len(js) |-> Get(ns, js[i]).data.joint.limits]

tree_get_joint_names(ns) ==
    LET js == iter_joints(ns)
    IN  [i \in 1 .. Len(js) |-> Get(ns, js[i]).data.joint.name]

(* IdLinkTree::calc_link_transforms: the closure applied to each node of      *)
(* iter_descendants(NodeId(0)) in turn.  `fallback` collects the nodes that   *)
(* have a parent whose cache was empty when they were processed.              *)
RECURSIVE link_transforms_run(_, _, _, _, _)
link_transforms_run(ns, order, i, out, fallback) ==
    IF i > Len(order)
    THEN [nodes |-> ns, res |-> out, order |-> order, fallback |-> fallback]
    ELSE LET id == order[i]
             node == Get(ns, id)
             pcache == IF IsSome(node.parent)
                       THEN Get(ns, Unwrap(node.parent)).data.world_transform_cache
                       ELSE None
             parent_transform == IF IsSome(pcache) THEN Unwrap(pcache) ELSE Identity
             trans == Mul(parent_transform, calc_transform(node.data))
             fb == IF IsSome(node.parent) /\ IsNone(pcache)
                   THEN fallback \cup {id} ELSE fallback
         IN  link_transforms_run(
                 [ns EXCEPT ![id + 1].data.world_transform_cache = Some(trans)],
                 order, i + 1, Append(out, trans), fb)

tree_calc_link_transforms(ns) ==
    link_transforms_run(ns, iter_descendants(ns, 0), 1, <<>>, {})

(* ---- IdKinematicChain ---- *)
RECURSIVE ancestors_collect(_, _, _)
ancestors_collect(ns, id, out) ==
    LET r == Ancestor_next(ns, id)
    IN  IF IsNone(r.item) THEN out
        ELSE ancestors_collect(ns, r.id, out \o r.item)

chain_from_end_link_name_unreversed(ns, end_link_name) ==
    LET found == {i \in Ids(ns) : Get(ns, i).data.name = end_link_name}
    IN  IF found = {} THEN None
        ELSE LET end_node == CHOOSE i \in found : \A j \in found : i <= j
                 node_ids == ancestors_collect(ns, iter_ancestors(end_node), <<>>)
             IN  Some([name |-> end_link_name, id_list |-> node_ids])

chain_from_end_link_name(ns, end_link_name) ==
    LET found == {i \in Ids(ns) : Get(ns, i).data.name = end_link_name}
    IN  IF found = {} THEN None
        ELSE LET end_node == CHOOSE i \in found : \A j \in found : i <= j
                 node_ids == ancestors_collect(ns, iter_ancestors(end_node), <<>>)
             IN  Some([name |-> end_link_name, id_list |-> Reverse(node_ids)])

links_with_angle(ns, id_list) ==
    SelectSeq(id_list, LAMBDA id : has_joint_angle(Get(ns, id).data))

chain_set_joint_angles(ns, id_list, angles) ==
    IF Len(links_with_angle(ns, id_list)) # Len(angles)
    THEN [nodes |-> ns, res |-> "SizeMisMatch"]
    ELSE assign_angles(ns, links_with_angle(ns, id_list), angles, 1)

chain_get_joint_angles_unfiltered(ns, id_list) ==
    [i \in 1 .. Len(id_list) |-> Get(ns, id_list[i]).data.joint.angle]

chain_get_joint_angles(ns, id_list) ==
    FilterMap([i \in 1 .. Len(id_list) |-> get_joint_angle(Get(ns, id_list[i]).data)])

chain_get_joint_limits(ns, id_list) ==
    LET ls == links_with_angle(ns, id_list)
    IN  [i \in 1 .. Len(ls) |-> Get(ns, ls[i]).data.joint.limits]

chain_get_joint_names(ns, id_list) ==
    LET ls == links_with_angle(ns, id_list)
    IN  [i \in 1 .. Len(ls) |-> Get(ns, ls[i]).data.joint.name]

(* IdKinematicChain::calc_end_transform: the chain's base transform (the      *)
(* identity set by new) times the local transform of each link in turn;       *)
(* end_link_name is None after new, so the fold never stops early.            *)
RECURSIVE end_transform_run(_, _, _, _)
end_transform_run(ns, id_list, i, end_transform) ==
    IF i > Len(id_list) THEN end_transform
    ELSE end_transform_run(ns, id_list, i + 1,
                           Mul(end_transform, calc_transform(Get(ns, id_list[i]).data)))

chain_calc_end_transform(ns, id_list) == end_transform_run(ns, id_list, 1, Identity)

(* ---- JacobianIKSolver ---- *)
(* The pose of a transform as the solver measures it: a translation part and  *)
(* a rotation part.  The rotation is the sum of the joint angles, the         *)
(* translation weighs each angle with the position of its link and adds the   *)
(* link offsets.                                                              *)
RECURSIVE pose_sum(_, _, _)
pose_sum(w, i, acc) ==
    IF i > Len(w) THEN acc
    ELSE LET a == IF IsSome(w[i][2]) THEN Unwrap(w[i][2]) ELSE 0
         IN  pose_sum(w, i + 1,
                      [trans |-> acc.trans + w[i][1] + i * a, rot |-> acc.rot + a])

calc_pose(w) == pose_sum(w, 1, [trans |-> 0, rot |-> 0])

Abs(x) == IF x < 0 THEN 0 - x ELSE x

pose_error(current, target) ==
    [trans |-> Abs(target.trans - current.trans), rot |-> Abs(target.rot - current.rot)]

within_tolerance(err) == err.trans <= PosTol /\ err.rot <= RotTol

chain_error(ns, id_list, target) ==
    pose_error(calc_pose(chain_calc_end_transform(ns, id_list)), target)

(* The angle vectors one update may arrive at: the damped least-squares step  *)
(* is not computed, every vector that respects the joint limits stands for a  *)
(* possible outcome of it.                                                    *)
step_candidates(ns, id_list) ==
    LET js == links_with_angle(ns, id_list)
    IN  {v \in [1 .. Len(js) -> Angles] :
            \A i \in 1 .. Len(js) : set_joint_angle(Get(ns, js[i]).data, v[i]).err = "Ok"}

solve_begin(ns, id_list, target) ==
    [st |-> "running", res |-> "none", iter |-> 0, target |-> target,
     before |-> chain_get_joint_angles(ns, id_list),
     attempt |-> chain_get_joint_angles(ns, id_list),
     met_at_call |-> within_tolerance(chain_error(ns, id_list, target))]

solve_round_reverts(ns, id_list, s, new_angles) ==
    IF within_tolerance(chain_error(ns, id_list, s.target))
    THEN [nodes |-> ns, ik |-> [s EXCEPT !.st = "done", !.res = "Ok"]]
    ELSE IF s.iter >= MaxTry
    THEN [nodes |-> chain_set_joint_angles(ns, id_list, s.before).nodes,
          ik |-> [s EXCEPT !.st = "done", !.res = "NotConverged"]]
    ELSE [nodes |-> chain_set_joint_angles(ns, id_list, new_angles).nodes,
          ik |-> [s EXCEPT !.iter = s.iter + 1, !.attempt = new_angles]]

solve_round_steps_first(ns, id_list, s, new_angles) ==
    IF s.iter > 0 /\ within_tolerance(chain_error(ns, id_list, s.target))
    THEN [nodes |-> ns, ik |-> [s EXCEPT !.st = "done", !.res = "Ok"]]
    ELSE IF s.iter >= MaxTry
    THEN [nodes |-> ns, ik |-> [s EXCEPT !.st = "done", !.res = "NotConverged"]]
    ELSE [nodes |-> chain_set_joint_angles(ns, id_list, new_angles).nodes,
          ik |-> [s EXCEPT !.iter = s.iter + 1, !.attempt = new_angles]]

(* One round of solve: succeed when both error norms are within tolerance,    *)
(* give up when the iteration count has reached the maximum, otherwise apply  *)
(* the update to the chain and count the iteration.                           *)
solve_round(ns, id_list, s, new_angles) ==
    IF within_tolerance(chain_error(ns, id_list, s.target))
    THEN [nodes |-> ns, ik |-> [s EXCEPT !.st = "done", !.res = "Ok"]]
    ELSE IF s.iter >= MaxTry
    THEN [nodes |-> ns, ik |-> [s EXCEPT !.st = "done", !.res = "NotConverged"]]
    ELSE [nodes |-> chain_set_joint_angles(ns, id_list, new_angles).nodes,
          ik |-> [s EXCEPT !.iter = s.iter + 1, !.attempt = new_angles]]

(* ---- operations on the kinematic tree and on a chain over it ---- *)
(* Inputs of set_joint_angles for a target with k joints: every vector of     *)
(* length k, and constant vectors one shorter and one longer.                 *)
AngleVecs(k) ==
    [1 .. k -> Angles]
      \cup {[i \in 1 .. m |-> v] : m \in {k - 1, k + 1} \cap Nat, v \in Angles}

NonFixed(ns, ids) ==
    SelectSeq(ids, LAMBDA id : Get(ns, id).data.joint.joint_type # "Fixed")

(* set_parent_child as the code takes it, the caller's obligations aside: any *)
(* two distinct existing nodes (with parent = child the second borrow_mut of  *)
(* the same cell aborts the program).                                         *)
SetParentChildAny(p, c) ==
    /\ Building
    /\ p \in Ids(nodes) /\ c \in Ids(nodes) /\ p # c
    /\ Len(links) < MaxNodes
    /\ nodes' = set_parent_child(nodes, p, c)
    /\ links' = Append(links, <<p, c>>)
    /\ last' = [op |-> "set_parent_child", res |-> <<p, c>>]
    /\ anc' = AncIdle
    /\ UNCHANGED <<ik, created, wrapped, chain>>

GetRootNodeId ==
    /\ Robot
    /\ last' = [op |-> "get_root_node_id", res |-> get_root_node_id(nodes)]
    /\ UNCHANGED <<ik, nodes, links, created, anc, wrapped, chain>>

TargetPoses == [trans : 0 .. MaxTarget, rot : 0 .. MaxTarget]

Solve(target) ==
    /\ IsSome(chain)
    /\ ik.st # "running"
    /\ ik' = solve_begin(nodes, Unwrap(chain).id_list, target)
    /\ last' = [op |-> "solve"]
    /\ UNCHANGED <<nodes, links, created, anc, wrapped, chain>>

SolveRound ==
    /\ IsSome(chain)
    /\ ik.st = "running"
    /\ \E v \in step_candidates(nodes, Unwrap(chain).id_list) :
          LET r == solve_round(nodes, Unwrap(chain).id_list, ik, v)
          IN  nodes' = r.nodes /\ ik' = r.ik
    /\ UNCHANGED <<links, created, anc, wrapped, chain, last>>

IdLinkTree_new ==
    /\ Building
    /\ wrapped' = TRUE
    /\ anc' = AncIdle
    /\ last' = [op |-> "new"]
    /\ UNCHANGED <<ik, nodes, links, created, chain>>

SetRootTransform(pose) ==
    /\ Robot
    /\ Len(nodes) >= 1
    /\ nodes' = set_root_transform(nodes, pose)
    /\ last' = [op |-> "set_root_transform", res |-> pose]
    /\ UNCHANGED <<ik, links, created, anc, wrapped, chain>>

CalcLinkTransforms ==
    /\ Robot
    /\ Len(nodes) >= 1
    /\ LET r == tree_calc_link_transforms(nodes)
       IN  /\ nodes' = r.nodes
           /\ last' = [op |-> "calc_link_transforms", res |-> r.res,
                       order |-> r.order, fallback |-> r.fallback]
    /\ UNCHANGED <<ik, links, created, anc, wrapped, chain>>

TreeSetJointAngles(angles) ==
    /\ Robot
    /\ LET r == tree_set_joint_angles(nodes, angles)
       IN  /\ nodes' = r.nodes
           /\ last' = [op |-> "tree_set_joint_angles", arg |-> angles, res |-> r.res]
    /\ UNCHANGED <<ik, links, created, anc, wrapped, chain>>

ChainFromEndLinkName(name) ==
    /\ Robot
    /\ chain' = chain_from_end_link_name(nodes, name)
    /\ last' = [op |-> "chain_from_end_link_name", res |-> name]
    /\ UNCHANGED <<ik, nodes, links, created, anc, wrapped>>

ChainSetJointAngles(angles) ==
    /\ IsSome(chain)
    /\ ik.st # "running"
    /\ LET r == chain_set_joint_angles(nodes, Unwrap(chain).id_list, angles)
       IN  /\ nodes' = r.nodes
           /\ last' = [op |-> "chain_set_joint_angles", arg |-> angles, res |-> r.res]
    /\ UNCHANGED <<ik, links, created, anc, wrapped, chain>>

ChainDrop ==
    /\ IsSome(chain)
    /\ ik.st # "running"
    /\ chain' = None
    /\ last' = [op |-> "chain_drop"]
    /\ ik' = IkIdle
    /\ UNCHANGED <<nodes, links, created, anc, wrapped>>

Build ==
    \/ \E d \in LinkInputs : CreateNode(d)
    \/ \E p \in Ids(nodes), c \in Ids(nodes) : SetParentChild(p, c)

(* The arena tree alone. *)
Next ==
    \/ Build
    \/ \E id \in Ids(nodes) : AncestorStart(id)
    \/ AncestorNext

Spec == Init /\ [][Next]_vars

(* Whole-tree forward kinematics. *)
NextFK ==
    \/ Build
    \/ IdLinkTree_new
    \/ \E pose \in Poses : SetRootTransform(pose)
    \/ CalcLinkTransforms
    \/ \E a \in AngleVecs(Len(NonFixed(nodes, SeqOfIds(nodes)))) : TreeSetJointAngles(a)

SpecFK == Init /\ [][NextFK]_vars

(* Joint space of the tree and of a chain over it. *)
NextChain ==
    \/ Build
    \/ IdLinkTree_new
    \/ \E a \in AngleVecs(Len(NonFixed(nodes, SeqOfIds(nodes)))) : TreeSetJointAngles(a)
    \/ \E n \in LookupNames : ChainFromEndLinkName(n)
    \/ /\ IsSome(chain)
       /\ \E a \in AngleVecs(Len(NonFixed(nodes, Unwrap(chain).id_list))) :
              ChainSetJointAngles(a)
    \/ ChainDrop

SpecChain == Init /\ [][NextChain]_vars

(* Inverse kinematics on a chain. *)
NextIK ==
    \/ Build
    \/ IdLinkTree_new
    \/ \E n \in LookupNames : ChainFromEndLinkName(n)
    \/ \E t \in TargetPoses : Solve(t)
    \/ SolveRound
    \/ ChainDrop

SpecIK == Init /\ [][NextIK]_vars

(* Looking for the root of whatever the calls have built, well formed or not. *)
NextRoot ==
    \/ \E d \in LinkInputs : CreateNode(d)
    \/ \E p \in Ids(nodes), c \in Ids(nodes) : SetParentChildAny(p, c)
    \/ IdLinkTree_new
    \/ GetRootNodeId

SpecRoot == Init /\ [][NextRoot]_vars

(* ======================= properties ======================= *)
LinkedChildren(p) ==
    LET mine == SelectSeq(links, LAMBDA l : l[1] = p)
    IN  [i \in 1 .. Len(mine) |-> mine[i][2]]

Occurrences(s, x) == Cardinality({i \in 1 .. Len(s) : s[i] = x})

(* C1: every link made by set_parent_child(p, c) shows as c.parent = p and as  *)
(* exactly one occurrence of c among p's children, the children of a node are  *)
(* the children given to it in the order they were added, the two directions   *)
(* agree, and every id stored as a parent or a child names an existing node.   *)
C1_LinksConsistent ==
    /\ \A k \in 1 .. Len(links) :
          /\ Get(nodes, links[k][2]).parent = Some(links[k][1])
          /\ Occurrences(Get(nodes, links[k][1]).children, links[k][2]) = 1
    /\ \A p \in Ids(nodes) :
          /\ Get(nodes, p).children = LinkedChildren(p)
          /\ \A i \in 1 .. Len(Get(nodes, p).children) :
                /\ Get(nodes, p).children[i] \in Ids(nodes)
                /\ Get(nodes, Get(nodes, p).children[i]).parent = Some(p)
          /\ IsSome(Get(nodes, p).parent) =>
                /\ Unwrap(Get(nodes, p).parent) \in Ids(nodes)
                /\ Occurrences(Get(nodes, Unwrap(Get(nodes, p).parent)).children, p) = 1

C1_Witness ==
    /\ Len(links) = 2
    /\ \E p \in Ids(nodes) : Len(Get(nodes, p).children) = 2

(* C2: the k-th create_node returns id k, node k carries id k and sits at      *)
(* position k of iter(), so ids are dense and never reused; the node just      *)
(* created has no parent and no children; iter() yields as many nodes as were  *)
(* created, in creation order, whatever links were made in between.            *)
C2_DenseIds ==
    /\ Len(iter(nodes)) = Len(created)
    /\ \A k \in 1 .. Len(iter(nodes)) :
          /\ iter(nodes)[k].id = k - 1
          /\ iter(nodes)[k].data.name = created[k]
    /\ last.op = "create_node" =>
          /\ last.res = Len(created) - 1
          /\ Get(nodes, last.res).parent = None
          /\ Get(nodes, last.res).children = <<>>

C2_Witness ==
    /\ last.op = "create_node"
    /\ last.res = 2
    /\ links # <<>>
    /\ created[1] # created[2]

(* The parent and the path to the root, read off the calls made. *)
LinkedParent(c) ==
    LET up == {k \in 1 .. Len(links) : links[k][2] = c}
    IN  IF up = {} THEN None ELSE Some(links[CHOOSE k \in up : TRUE][1])

RECURSIVE PathToRoot(_)
PathToRoot(c) ==
    IF IsNone(LinkedParent(c)) THEN <<c>>
    ELSE <<c>> \o PathToRoot(Unwrap(LinkedParent(c)))

Depth(c) == Len(PathToRoot(c)) - 1

IsPrefix(s, t) == Len(s) <= Len(t) /\ SubSeq(t, 1, Len(s)) = s

(* C3: iter_ancestors(id) yields id, then each successive parent; what is      *)
(* still to come shrinks with every item, so the walk ends, and it ends having *)
(* yielded depth(id) + 1 nodes, the last of them the parentless root.          *)
C3_AncestorsToRoot ==
    /\ anc.st = "iter" =>
          /\ IsPrefix(anc.out, PathToRoot(Unwrap(anc.start)))
          /\ IsSome(anc.id) =>
                /\ Len(anc.out) < Len(PathToRoot(Unwrap(anc.start)))
                /\ Unwrap(anc.id) = PathToRoot(Unwrap(anc.start))[Len(anc.out) + 1]
          /\ IsNone(anc.id) => anc.out = PathToRoot(Unwrap(anc.start))
    /\ anc.st = "done" =>
          /\ anc.out = PathToRoot(Unwrap(anc.start))
          /\ anc.out[1] = Unwrap(anc.start)
          /\ Len(anc.out) = Depth(Unwrap(anc.start)) + 1
          /\ Get(nodes, anc.out[Len(anc.out)]).parent = None

C3_Witness ==
    /\ anc.st = "done"
    /\ Len(anc.out) = 3
    /\ anc.out[3] # 0

Roots == {i \in Ids(nodes) : IsNone(Get(nodes, i).parent)}

Cache(ns, id) == Get(ns, id).data.world_transform_cache

Position(s, x) == CHOOSE i \in 1 .. Len(s) : s[i] = x

(* C4: a whole-tree calc_link_transforms over a tree with one root visits     *)
(* every node once and after its parent, never falls back to the identity for *)
(* a node that has a parent, returns one pose per node, and leaves every      *)
(* node's cache equal to its parent's cache composed with its local transform.*)
C4_WholeTreePass ==
    (last.op = "calc_link_transforms" /\ Cardinality(Roots) = 1) =>
        /\ Len(last.res) = Len(nodes)
        /\ \A id \in Ids(nodes) : Occurrences(last.order, id) = 1
        /\ \A id \in Ids(nodes) :
              IsSome(Get(nodes, id).parent) =>
                  Position(last.order, Unwrap(Get(nodes, id).parent))
                      < Position(last.order, id)
        /\ last.fallback = {}
        /\ \A id \in Ids(nodes) :
              Cache(nodes, id) =
                  Some(Mul(IF IsSome(Get(nodes, id).parent)
                           THEN Unwrap(Cache(nodes, Unwrap(Get(nodes, id).parent)))
                           ELSE Identity,
                           calc_transform(Get(nodes, id).data)))

(* The world transform of a node under the current angles and offsets. *)
RECURSIVE World(_, _)
World(ns, id) ==
    IF IsNone(Get(ns, id).parent) THEN calc_transform(Get(ns, id).data)
    ELSE Mul(World(ns, Unwrap(Get(ns, id).parent)), calc_transform(Get(ns, id).data))

CachesFresh(ns) == \A id \in Ids(ns) : Cache(ns, id) = Some(World(ns, id))

SetAngleOps == {"tree_set_joint_angles", "chain_set_joint_angles"}

(* C5: a successful set_joint_angles made when every cache holds the result   *)
(* of a whole-tree pass leaves no link with a populated cache that differs    *)
(* from the link's world transform under the angles now set.                  *)
C5_AngleWriteInvalidates ==
    [][(/\ CachesFresh(nodes)
        /\ last'.op \in SetAngleOps
        /\ last'.res = "Ok")
       => \A id \in Ids(nodes') :
              IsSome(Cache(nodes', id)) => Cache(nodes', id) = Some(World(nodes', id))]_vars

(* C10: set_root_transform(pose) on a tree with one parentless node sets the  *)
(* local transform of that node, the one get_root_node_id returns, and        *)
(* changes nothing else.                                                      *)
C10_RootTransformFrame ==
    [][(last'.op = "set_root_transform" /\ Cardinality(Roots) = 1)
       => nodes' = [nodes EXCEPT
                       ![Unwrap(get_root_node_id(nodes)) + 1].data.transform = last'.res]]_vars

(* The joints a set_joint_angles call addresses, in the order it takes them. *)
Target(op) ==
    IF op = "chain_set_joint_angles"
    THEN NonFixed(nodes, Unwrap(chain).id_list)
    ELSE NonFixed(nodes, SeqOfIds(nodes))

(* C6: set_joint_angles, on the tree and on a chain, given a vector shorter   *)
(* or longer than the number of non-Fixed joints returns SizeMisMatch and     *)
(* changes no node.                                                           *)
C6_SizeMismatchRejected ==
    [][(last'.op \in SetAngleOps /\ Len(last'.arg) # Len(Target(last'.op)))
       => (last'.res = "SizeMisMatch" /\ nodes' = nodes)]_vars

C6_Witness ==
    /\ last.op = "chain_set_joint_angles"
    /\ last.res = "SizeMisMatch"
    /\ Len(last.arg) = 3
    /\ Len(Target(last.op)) = 2
    /\ \E id \in Ids(nodes) : Get(nodes, id).data.joint.angle # 0

(* A joint refuses a value outside its configured limits. *)
Refuses(ns, id, v) ==
    LET j == Get(ns, id).data.joint
    IN  IsSome(j.limits) /\ (v < Unwrap(j.limits).min \/ v > Unwrap(j.limits).max)

FailIndex(ns, ids, angles) ==
    LET bad == {i \in 1 .. Len(ids) : Refuses(ns, ids[i], angles[i])}
    IN  IF bad = {} THEN 0 ELSE CHOOSE i \in bad : \A j \in bad : i <= j

Structure(ns) ==
    [i \in 1 .. Len(ns) |-> <<ns[i].parent, ns[i].children, ns[i].little_sister, ns[i].id>>]

(* C7: when the input has the right length and the i-th assignment is         *)
(* refused, set_joint_angles returns that joint's error, the joints before    *)
(* the i-th hold their new angles, every later joint and every joint outside  *)
(* the target is as it was, and the tree structure is unchanged.              *)
C7_FailureAbortsRest ==
    [][(/\ last'.op \in SetAngleOps
        /\ Len(last'.arg) = Len(Target(last'.op))
        /\ FailIndex(nodes, Target(last'.op), last'.arg) > 0)
       => LET ids == Target(last'.op)
              f == FailIndex(nodes, ids, last'.arg)
          IN  /\ last'.res = "OutOfLimit"
              /\ Structure(nodes') = Structure(nodes)
              /\ \A i \in 1 .. (f - 1) :
                    Get(nodes', ids[i]).data.joint.angle = last'.arg[i]
              /\ \A i \in (f + 1) .. Len(ids) :
                    Get(nodes', ids[i]) = Get(nodes, ids[i])
              /\ \A id \in Ids(nodes) :
                    (\A i \in 1 .. Len(ids) : ids[i] # id)
                        => Get(nodes', id) = Get(nodes, id)]_vars

C7_Witness ==
    /\ last.op = "chain_set_joint_angles"
    /\ last.res = "OutOfLimit"
    /\ Len(last.arg) = 3
    /\ Len(Target(last.op)) = 3
    /\ FailIndex(nodes, Target(last.op), last.arg) = 2
    /\ Get(nodes, Target(last.op)[1]).data.joint.angle = 1
    /\ last.arg[3] = 1
    /\ Get(nodes, Target(last.op)[3]).data.joint.angle = 0

JointSpaceAligned(ids, angles, limits, names) ==
    LET js == NonFixed(nodes, ids)
    IN  /\ Len(angles) = Len(js)
        /\ Len(limits) = Len(js)
        /\ Len(names) = Len(js)
        /\ Len(js) = Cardinality({i \in 1 .. Len(ids) :
                                     Get(nodes, ids[i]).data.joint.joint_type # "Fixed"})
        /\ \A i \in 1 .. Len(js) :
              /\ angles[i] = Get(nodes, js[i]).data.joint.angle
              /\ limits[i] = Get(nodes, js[i]).data.joint.limits
              /\ names[i] = Get(nodes, js[i]).data.joint.name

(* C8: for a chain, and for the whole tree, get_joint_angles,                 *)
(* get_joint_limits and get_joint_names have one entry per non-Fixed joint,   *)
(* entry i of each taken from the i-th non-Fixed link in order; the tree's    *)
(* sequences have length dof().                                               *)
C8_JointSpaceAligned ==
    /\ JointSpaceAligned(SeqOfIds(nodes), tree_get_joint_angles(nodes),
                         tree_get_joint_limits(nodes), tree_get_joint_names(nodes))
    /\ Len(tree_get_joint_angles(nodes)) = dof(nodes)
    /\ IsSome(chain) =>
          JointSpaceAligned(Unwrap(chain).id_list,
                            chain_get_joint_angles(nodes, Unwrap(chain).id_list),
                            chain_get_joint_limits(nodes, Unwrap(chain).id_list),
                            chain_get_joint_names(nodes, Unwrap(chain).id_list))

C8_Witness ==
    /\ IsSome(chain)
    /\ Len(Unwrap(chain).id_list) = 3
    /\ chain_get_joint_angles(nodes, Unwrap(chain).id_list) = <<0, 1>>
    /\ Get(nodes, Unwrap(chain).id_list[2]).data.joint.joint_type = "Fixed"

(* C9: chain_from_end_link_name(name) gives nothing when no link is called    *)
(* name; otherwise a chain whose id list starts at the parentless root, ends  *)
(* at a node called name, and steps from each id to one of its children.      *)
C9_ChainIsRootToEnd ==
    last.op = "chain_from_end_link_name" =>
        IF \A id \in Ids(nodes) : Get(nodes, id).data.name # last.res
        THEN chain = None
        ELSE /\ IsSome(chain)
             /\ LET l == Unwrap(chain).id_list
                IN  /\ Len(l) >= 1
                    /\ Get(nodes, l[1]).parent = None
                    /\ Get(nodes, l[Len(l)]).data.name = last.res
                    /\ \A i \in 2 .. Len(l) :
                          /\ Get(nodes, l[i]).parent = Some(l[i - 1])
                          /\ Occurrences(Get(nodes, l[i - 1]).children, l[i]) = 1

C9_Witness ==
    /\ last.op = "chain_from_end_link_name"
    /\ IsSome(chain)
    /\ Len(Unwrap(chain).id_list) = 3
    /\ Unwrap(chain).id_list[1] # 0

(* C14: the little_sister links mirror the children lists: each child but the *)
(* last points to the child added after it, the last child of a node and      *)
(* every node that was never attached as a child point nowhere.               *)
C14_LittleSisterMirrorsChildren ==
    /\ \A p \in Ids(nodes) :
          LET cs == Get(nodes, p).children
          IN  \A i \in 1 .. Len(cs) :
                  Get(nodes, cs[i]).little_sister =
                      IF i < Len(cs) THEN Some(cs[i + 1]) ELSE None
    /\ \A c \in Ids(nodes) :
          (\A k \in 1 .. Len(links) : links[k][2] # c)
              => Get(nodes, c).little_sister = None

C14_Witness ==
    /\ last.op = "set_parent_child"
    /\ \E p \in Ids(nodes) :
          /\ Len(Get(nodes, p).children) = 2
          /\ IsSome(Get(nodes, Get(nodes, p).children[1]).little_sister)
          /\ Get(nodes, p).children[1] > Get(nodes, p).children[2]

(* C11: get_root_node_id returns the parentless node that comes first in      *)
(* creation order, hence the parentless node when there is exactly one, and   *)
(* fails, returning no id, when no node is parentless, the empty tree         *)
(* included.                                                                  *)
C11_RootOrNoRoot ==
    last.op = "get_root_node_id" =>
        /\ Roots = {} => last.res = None
        /\ \A r \in Roots : (\A j \in Roots : r <= j) => last.res = Some(r)

C11_Witness ==
    /\ last.op = "get_root_node_id"
    /\ last.res = None
    /\ Len(nodes) = 3

ChainAngles == chain_get_joint_angles(nodes, Unwrap(chain).id_list)

ChainError == chain_error(nodes, Unwrap(chain).id_list, ik.target)

(* C12: a solve call returns after at most MaxTry iterations: every round     *)
(* that does not return counts one iteration, a round is always possible, and *)
(* the count never exceeds the maximum.  It returns success only with both    *)
(* error norms within tolerance at return; otherwise it returns the           *)
(* not-converged error at the maximum count, with the target still not met    *)
(* and the chain's joint angles at the last attempted values.                 *)
C12_SolveBoundedAndHonest ==
    [][ /\ ik.st = "running" => step_candidates(nodes, Unwrap(chain).id_list) # {}
        /\ (ik.st = "running" /\ ik'.st = "running") => ik'.iter = ik.iter + 1
        /\ ik'.st \in {"running", "done"} => ik'.iter <= MaxTry
        /\ ik'.st = "done" =>
              LET id_list == Unwrap(chain').id_list
                  err == chain_error(nodes', id_list, ik'.target)
              IN  /\ ik'.res \in {"Ok", "NotConverged"}
                  /\ ik'.res = "Ok" => within_tolerance(err)
                  /\ ik'.res = "NotConverged" =>
                        /\ ik'.iter = MaxTry
                        /\ ~within_tolerance(err)
                        /\ chain_get_joint_angles(nodes', id_list) = ik'.attempt
      ]_vars

C12_Witness ==
    /\ ik.st = "done"
    /\ ik.res = "NotConverged"
    /\ ik.iter = MaxTry
    /\ ChainAngles # ik.before

(* C13: when the end transform of the chain meets both tolerances against the *)
(* target at the time of the call, solve succeeds with zero iterations and    *)
(* the joint angles of the chain after the call are those before it.          *)
C13_ZeroIterationSuccess ==
    (ik.st = "done" /\ ik.met_at_call) =>
        /\ ik.res = "Ok"
        /\ ik.iter = 0
        /\ ChainAngles = ik.before

C13_Witness ==
    /\ ik.st = "done"
    /\ ik.res = "Ok"
    /\ ik.iter = 0
    /\ ik.target = calc_pose(chain_calc_end_transform(nodes, Unwrap(chain).id_list))
    /\ \E i \in 1 .. Len(ik.before) : ik.before[i] # 0
====
